---- MODULE Spec2Model ----
(***************************************************************************)
(* Model of watcher.py: the nginx log watcher that raises failover and     *)
(* high-error-rate alerts.  A log line is the sequence of its characters,  *)
(* each character its code point.  Timestamps are whole seconds.           *)
(***************************************************************************)
EXTENDS Integers, Sequences, FiniteSets, TLC

(* ---------------------------- bounds ----------------------------------- *)
MaxExtra == 2      \* lines read in one run beyond WINDOW_SIZE
MaxBeyond == 0     \* the clock runs up to ALERT_COOLDOWN_SEC + MaxBeyond
MaxStatusLen == 4  \* characters of an upstream_status value given to the parser alone

\* seconds between the datetime.now() of check_failover and that of
\* check_error_rate: the clock has moved on between the two calls, or not
Delays == {0, 1}

\* seconds readline() waits for the next line: none, one, a whole cooldown
Waits(c) == {0, 1, c.ALERT_COOLDOWN_SEC}

(* --------------------- values standing for None ------------------------ *)
NoPool == << >>    \* last_pool = None (a matched pool is never empty)
NoTime == -1       \* last_*_alert = None

(* ------------------------- configuration ------------------------------- *)
\* ERROR_RATE_THRESHOLD is a float (see Float and Threshold33 below),
\* SLACK_WEBHOOK_URL is modelled by whether it is non-empty.

(* ----------------------------- characters ------------------------------ *)
\* A character is its code point, ord(c).  The printable ASCII characters
\* from the space (32) to the underscore (95) and from a (97) to the tilde
\* (126), in the order of their code points, so that Str("pool=") is the
\* text pool= as a sequence of characters.
AsciiLow ==
  " !\"#$%&'()*+,-./0123456789:;<=>?@ABCDEFGHIJKLMNOPQRSTUVWXYZ[\\]^_"

AsciiHigh == "abcdefghijklmnopqrstuvwxyz{|}~"

Ord(c) ==
  IF \E i \in 1..Len(AsciiLow) : SubSeq(AsciiLow, i, i) = c
  THEN 31 + (CHOOSE i \in 1..Len(AsciiLow) : SubSeq(AsciiLow, i, i) = c)
  ELSE 96 + (CHOOSE i \in 1..Len(AsciiHigh) : SubSeq(AsciiHigh, i, i) = c)

\* the characters of a text, in order
RECURSIVE Str(_)
Str(s) ==
  IF Len(s) = 0 THEN << >>
  ELSE Append(Str(SubSeq(s, 1, Len(s) - 1)), Ord(SubSeq(s, Len(s), Len(s))))

Space == Ord(" ")
Comma == Ord(",")

(* --------------------------- LOG_PATTERN ------------------------------- *)
\* \d of the pattern (a str pattern) is every Unicode decimal digit
\* (category Nd of Unicode 14, the version of CPython 3.11): the digits 0 to
\* 9 of each script are ten consecutive code points; these are the zeros
DigitZeros ==
  {48, 1632, 1776, 1984, 2406, 2534, 2662, 2790, 2918, 3046, 3174, 3302, 3430,
   3558, 3664, 3792, 3872, 4160, 4240, 6112, 6160, 6470, 6608, 6784, 6800,
   6992, 7088, 7232, 7248, 42528, 43216, 43264, 43472, 43504, 43600, 44016,
   65296, 66720, 68912, 69734, 69872, 69942, 70096, 70384, 70736, 70864,
   71248, 71360, 71472, 71904, 72016, 72784, 73040, 73120, 92768, 92864,
   93008, 120782, 120792, 120802, 120812, 120822, 123200, 123632, 125264,
   130032}

Digits == UNION { z..(z + 9) : z \in DigitZeros }

\* the value int() gives a digit
DigitVal(c) == c - (CHOOSE z \in DigitZeros : c \in z..(z + 9))

\* \s of the pattern (a str pattern) is Unicode whitespace, which is also
\* what str.strip() removes: \t \n \v \f \r, \x1c to \x1f, the space, U+0085,
\* U+00A0, U+1680, U+2000 to U+200A, U+2028, U+2029, U+202F, U+205F, U+3000
WhiteSpace ==
  (9..13) \cup (28..32) \cup {133, 160, 5760} \cup (8192..8202)
    \cup {8232, 8233, 8239, 8287, 12288}

IsSpace(c) == c \in WhiteSpace

\* [^\s]
NonSpace(c) == ~IsSpace(c)

\* [\d, ]
IsStatusChar(c) == c \in Digits \/ c = Comma \/ c = Space

\* the character classes of the pattern, by name
InClass(c, P) ==
  CASE P = "\\s" -> IsSpace(c)
    [] P = "[^\\s]" -> NonSpace(c)
    [] P = "[\\d, ]" -> IsStatusChar(c)

\* the position after the longest run of characters satisfying P that
\* starts at i (i itself when the run is empty)
EndOfRun(line, i, P) ==
  IF i > Len(line) THEN i
  ELSE i + (CHOOSE n \in 0..(Len(line) + 1 - i) :
              /\ \A j \in i..(i + n - 1) : InClass(line[j], P)
              /\ (i + n > Len(line) \/ ~InClass(line[i + n], P)))

\* the literal text lit stands in the line at position i
LiteralAt(line, i, lit) ==
  /\ i + Len(lit) - 1 <= Len(line)
  /\ SubSeq(line, i, i + Len(lit) - 1) = lit

\* the literal texts of the pattern
PoolKey == Str("pool=")
ReleaseKey == Str("release=")
StatusKey == Str("upstream_status=")

NoMatch == [ok |-> FALSE, pool |-> << >>, release |-> << >>, upstream_status |-> << >>]

\* (?P<upstream_status>[\d, ]+): the group is line[p3..s3-1]
MatchStatus(line, p1, s1, p2, s2, p3, s3) ==
  IF s3 = p3 THEN NoMatch
  ELSE [ok |-> TRUE,
        pool |-> SubSeq(line, p1, s1 - 1),
        release |-> SubSeq(line, p2, s2 - 1),
        upstream_status |-> SubSeq(line, p3, s3 - 1)]

\* \s+ up to u0, then upstream_status=
MatchSep2(line, p1, s1, p2, s2, u0) ==
  IF u0 = s2 THEN NoMatch
  ELSE IF ~LiteralAt(line, u0, StatusKey) THEN NoMatch
  ELSE MatchStatus(line, p1, s1, p2, s2, u0 + Len(StatusKey),
                   EndOfRun(line, u0 + Len(StatusKey), "[\\d, ]"))

\* (?P<release>[^\s]+): the group is line[p2..s2-1]
MatchRelease(line, p1, s1, p2, s2) ==
  IF s2 = p2 THEN NoMatch
  ELSE MatchSep2(line, p1, s1, p2, s2, EndOfRun(line, s2, "\\s"))

\* \s+ up to r0, then release=
MatchSep1(line, p1, s1, r0) ==
  IF r0 = s1 THEN NoMatch
  ELSE IF ~LiteralAt(line, r0, ReleaseKey) THEN NoMatch
  ELSE MatchRelease(line, p1, s1, r0 + Len(ReleaseKey),
                    EndOfRun(line, r0 + Len(ReleaseKey), "[^\\s]"))

\* (?P<pool>[^\s]+): the group is line[p1..s1-1]
MatchPool(line, p1, s1) ==
  IF s1 = p1 THEN NoMatch
  ELSE MatchSep1(line, p1, s1, EndOfRun(line, s1, "\\s"))

\* LOG_PATTERN matched with its first character at position i; each + is
\* greedy and what follows it cannot start inside the run, so no shorter
\* run matches
MatchAt(line, i) ==
  IF ~LiteralAt(line, i, PoolKey) THEN NoMatch
  ELSE MatchPool(line, i + Len(PoolKey), EndOfRun(line, i + Len(PoolKey), "[^\\s]"))

\* LOG_PATTERN.search(line): the leftmost match
Search(line) ==
  LET hits == {i \in 1..Len(line) : MatchAt(line, i).ok}
  IN IF hits = {} THEN NoMatch
     ELSE MatchAt(line, CHOOSE i \in hits : \A j \in hits : i <= j)

\* s without the characters of the set ws at its two ends
StripSet(s, ws) ==
  IF \A j \in 1..Len(s) : s[j] \in ws THEN << >>
  ELSE LET a == CHOOSE i \in 1..Len(s) :
                  s[i] \notin ws /\ \A j \in 1..(i - 1) : s[j] \in ws
           b == CHOOSE i \in 1..Len(s) :
                  s[i] \notin ws /\ \A j \in (i + 1)..Len(s) : s[j] \in ws
       IN SubSeq(s, a, b)

\* str.strip()
Strip(s) == StripSet(s, WhiteSpace)

\* mutant: the last item of the list instead of the first
SplitLast(s) ==
  IF \E i \in 1..Len(s) : s[i] = Comma
  THEN SubSeq(s, (CHOOSE i \in 1..Len(s) :
                    s[i] = Comma /\ \A j \in (i + 1)..Len(s) : s[j] # Comma) + 1,
              Len(s))
  ELSE s

\* s.split(',')[0]
SplitFirst(s) ==
  IF \E i \in 1..Len(s) : s[i] = Comma
  THEN SubSeq(s, 1, (CHOOSE i \in 1..Len(s) :
                       s[i] = Comma /\ \A j \in 1..(i - 1) : s[j] # Comma) - 1)
  ELSE s

IsDigit(c) == c \in Digits

\* the value of a string of digits
RECURSIVE DecValue(_)
DecValue(s) ==
  IF s = << >> THEN 0
  ELSE 10 * DecValue(SubSeq(s, 1, Len(s) - 1)) + DigitVal(s[Len(s)])

\* sys.get_int_max_str_digits(): the most digits int() converts (the
\* default of CPython 3.11)
IntMaxStrDigits == 4300

\* the whitespace int() ignores at the two ends of its argument: Unicode
\* whitespace but for \x1c to \x1f
IntSpace == WhiteSpace \ (28..31)

\* the argument of int() without the whitespace around it
IntText(s) == StripSet(s, IntSpace)

\* the same without its sign
IntBody(s) ==
  IF IntText(s) # << >> /\ IntText(s)[1] \in {Ord("+"), Ord("-")}
  THEN Tail(IntText(s))
  ELSE IntText(s)

\* int(s) succeeds: an optional sign, then digits, single underscores
\* allowed between two of them, and no more digits than the limit
IntOk(s) ==
  LET body == IntBody(s)
  IN /\ body # << >>
     /\ \A j \in 1..Len(body) : body[j] \in Digits \cup {Ord("_")}
     /\ body[1] \in Digits /\ body[Len(body)] \in Digits
     /\ \A j \in 1..(Len(body) - 1) : body[j] \in Digits \/ body[j + 1] \in Digits
     /\ Len(SelectSeq(body, IsDigit)) <= IntMaxStrDigits

IntValue(s) ==
  IF IntText(s)[1] = Ord("-")
  THEN 0 - DecValue(SelectSeq(IntBody(s), IsDigit))
  ELSE DecValue(SelectSeq(IntBody(s), IsDigit))

\* parse_log_line: a record, (None, None, None), or ValueError out of int()
parse_log_line(line) ==
  LET match == Search(line)
      upstream_status_str == Strip(match.upstream_status)
      first == SplitFirst(upstream_status_str)
  IN IF match.ok
     THEN IF IntOk(first)
          THEN [kind |-> "record", pool |-> match.pool,
                release |-> match.release, status |-> IntValue(first)]
          ELSE [kind |-> "ValueError", pool |-> << >>, release |-> << >>, status |-> 0]
     ELSE [kind |-> "none", pool |-> << >>, release |-> << >>, status |-> 0]

(* ------------------- (error_count / WINDOW_SIZE) * 100 ----------------- *)
\* A float is an IEEE-754 double: nan, an infinity, or the finite number
\* mant * 2^exp, negated when neg; mant is a natural number written in
\* binary, most significant bit first (<< >> is 0).  The arithmetic below is
\* exact on such numerals and rounds where the double rounds, to 53 bits,
\* to nearest, ties to even.

\* 2^e for e from 0 to 30
Pow2(e) ==
  <<1, 2, 4, 8, 16, 32, 64, 128, 256, 512, 1024, 2048, 4096, 8192, 16384,
    32768, 65536, 131072, 262144, 524288, 1048576, 2097152, 4194304, 8388608,
    16777216, 33554432, 67108864, 134217728, 268435456, 536870912,
    1073741824>>[e + 1]

\* the last w bits of a natural number
RECURSIVE Bits(_, _)
Bits(n, w) ==
  IF w = 0 THEN << >>
  ELSE IF n % 2 = 0 THEN Append(Bits(n \div 2, w - 1), 0)
  ELSE Append(Bits(n \div 2, w - 1), 1)

\* the numeral of a natural number below 2^31
Binary(n) == Bits(n, 31)

\* float(n) of such a number
Float(n) == [kind |-> "finite", neg |-> FALSE, mant |-> Binary(n), exp |-> 0]

\* the numeral without its leading zeros
Trim(a) ==
  IF \A i \in 1..Len(a) : a[i] = 0 THEN << >>
  ELSE SubSeq(a, CHOOSE i \in 1..Len(a) : a[i] = 1 /\ \A j \in 1..(i - 1) : a[j] = 0,
              Len(a))

\* a * 2^s
ShiftLeft(a, s) == a \o [i \in 1..s |-> 0]

\* -1, 0 or 1 as a is less than, equal to or greater than b, for numerals
\* without leading zeros
CompareTrimmed(a, b) ==
  IF Len(a) # Len(b) THEN IF Len(a) < Len(b) THEN -1 ELSE 1
  ELSE IF a = b THEN 0
  ELSE IF a[CHOOSE i \in 1..Len(a) :
              a[i] # b[i] /\ \A j \in 1..(i - 1) : a[j] = b[j]] = 1
       THEN 1 ELSE -1

Compare(a, b) == CompareTrimmed(Trim(a), Trim(b))

\* a with zeros before it: as many as bring its length to a multiple of
\* 4, and 28 more for the last carry
Pad(a) == [i \in 1..(28 + ((4 - (Len(a) % 4)) % 4)) |-> 0] \o a

\* the number written by the four bits of a that end at position e
Nibble(a, e) == 8 * a[e - 3] + 4 * a[e - 2] + 2 * a[e - 1] + a[e]

\* a * n + c from the low end, four bits at a time: acc holds the carry
\* into the next four bits, then the bits already written
RECURSIVE MulAddFrom(_, _, _)
MulAddFrom(a, n, acc) ==
  IF Len(acc) = Len(a) + 1 THEN Tail(acc)
  ELSE MulAddFrom(a, n,
         <<(Nibble(a, Len(a) + 1 - Len(acc)) * n + acc[1]) \div 16>>
           \o Bits((Nibble(a, Len(a) + 1 - Len(acc)) * n + acc[1]) % 16, 4)
           \o Tail(acc))

\* a * n + c, for natural numbers n and c below 2^26
MulAdd(a, n, c) == MulAddFrom(Pad(a), n, <<c>>)

\* -1, 0 or 1 as x is less than, equal to or greater than y, for finite
\* x, y >= 0
CompareFloat(x, y) ==
  IF x.exp <= y.exp
  THEN Compare(x.mant, ShiftLeft(y.mant, y.exp - x.exp))
  ELSE Compare(ShiftLeft(x.mant, x.exp - y.exp), y.mant)

\* round to nearest, ties to even: 1 when a quotient with remainder rem out
\* of unit, and odd integer part, is rounded up
RoundUp(rem, unit, odd) ==
  IF 2 * rem > unit \/ (2 * rem = unit /\ odd) THEN 1 ELSE 0

\* least j with k * 2^j >= N: k/N = 1.x * 2^-j
ScaleExp(k, N) == CHOOSE j \in 0..30 : k * Pow2(j) >= N /\ (j = 0 \/ k * Pow2(j - 1) < N)

\* the long division by N < 2^26, four bits at a time: q holds the
\* quotient bits already written, x is the remainder so far; after 53 bits
\* one more tells how the quotient is rounded
RECURSIVE LongDivision(_, _, _)
LongDivision(q, x, N) ==
  IF Len(q) = 53 THEN Append(q, RoundUp(x, N, q[53] = 1))
  ELSE LongDivision(q \o Bits((16 * x) \div N, 4), (16 * x) % N, N)

\* error_count / WINDOW_SIZE for 0 < k <= N: k * 2^j / N is 1.x, the
\* quotient is its first 53 bits, rounded
TrueDivide(k, N) ==
  LET d == LongDivision(<<1>>, k * Pow2(ScaleExp(k, N)) - N, N)
  IN [kind |-> "finite", neg |-> FALSE,
      mant |-> Trim(MulAdd(SubSeq(d, 1, 53), 1, d[54])),
      exp |-> 0 - (ScaleExp(k, N) + 52)]

\* x * n for a finite x >= 0 and a natural number n below 2^26: the
\* product of the numerals, rounded to its 53 leading bits
Multiply(x, n) ==
  LET product == Trim(MulAdd(x.mant, n, 0))
      extra == Len(product) - 53
      half == Compare(ShiftLeft(SubSeq(product, 54, Len(product)), 1),
                      ShiftLeft(<<1>>, extra))
  IN IF extra <= 0
     THEN [kind |-> "finite", neg |-> FALSE, mant |-> product, exp |-> x.exp]
     ELSE [kind |-> "finite", neg |-> FALSE,
           mant |-> Trim(MulAdd(SubSeq(product, 1, 53), 1,
                                IF half > 0 \/ (half = 0 /\ product[53] = 1) THEN 1 ELSE 0)),
           exp |-> x.exp + extra]

\* error_rate = (error_count / WINDOW_SIZE) * 100
ErrorRate(k, N) ==
  IF k = 0 THEN Float(0) ELSE Multiply(TrueDivide(k, N), 100)

\* the window sizes of the configurations below
WindowSizes == {2, 3, 4, 20}

\* the error rate of every count in a window of one of these sizes, as
\* triples <<error_count, WINDOW_SIZE, error_rate>>
ErrorRates ==
  { <<p[1], p[2], ErrorRate(p[1], p[2])>> :
      p \in { q \in (0..20) \X WindowSizes : q[1] <= q[2] } }

error_rate(k, N) ==
  IF N \in WindowSizes /\ k \in 0..N
  THEN (CHOOSE r \in ErrorRates : r[1] = k /\ r[2] = N)[3]
  ELSE ErrorRate(k, N)

\* x > T for a finite x >= 0 and any float T
Greater(x, T) ==
  CASE T.kind = "nan" -> FALSE
    [] T.kind = "inf" -> T.neg
    [] OTHER -> IF T.neg THEN Trim(T.mant) # << >> \/ Trim(x.mant) # << >>
                ELSE CompareFloat(x, T) > 0

\* mutant: the comparison written >= instead of >
RateExceedsOrEqual(k, N, T) ==
  CASE T.kind = "nan" -> FALSE
    [] T.kind = "inf" -> T.neg
    [] OTHER -> T.neg \/ CompareFloat(error_rate(k, N), T) >= 0

\* error_rate > ERROR_RATE_THRESHOLD
RateExceeds(k, N, T) == Greater(error_rate(k, N), T)

\* 1, 0 or -1 as the double error_rate is above, equal to or below the
\* number 100 * k / N
RoundErr(k, N) ==
  Compare(MulAdd(error_rate(k, N).mant, N, 0),
          ShiftLeft(Binary(100 * k), 0 - error_rate(k, N).exp))

\* f"{error_rate:.2f}" as a number of hundredths
Fmt2(k, N) ==
  LET q   == (10000 * k) \div N
      rem == (10000 * k) % N
      d   == RoundErr(k, N)
  IN IF 2 * rem > N THEN q + 1
     ELSE IF 2 * rem < N THEN q
     ELSE IF d > 0 THEN q + 1
     ELSE IF d < 0 THEN q
     ELSE IF q % 2 = 0 THEN q ELSE q + 1

\* float("33.33333333333333") = 0x1.0aaaaaaaaaaaap+5, the double that
\* (1 / 3) * 100 gives; the number 100 / 3 is above it
Threshold33 ==
  [kind |-> "finite", neg |-> FALSE,
   mant |-> <<1, 0,0,0,0, 1,0,1,0, 1,0,1,0, 1,0,1,0, 1,0,1,0, 1,0,1,0, 1,0,1,0,
              1,0,1,0, 1,0,1,0, 1,0,1,0, 1,0,1,0, 1,0,1,0, 1,0,1,0>>,
   exp |-> -47]

Configs ==
  { [WINDOW_SIZE |-> 4, ERROR_RATE_THRESHOLD |-> Float(25),
     ALERT_COOLDOWN_SEC |-> 0, SLACK_WEBHOOK_URL |-> FALSE],
    [WINDOW_SIZE |-> 2, ERROR_RATE_THRESHOLD |-> Float(50),
     ALERT_COOLDOWN_SEC |-> 2, SLACK_WEBHOOK_URL |-> TRUE],
    [WINDOW_SIZE |-> 3, ERROR_RATE_THRESHOLD |-> Threshold33,
     ALERT_COOLDOWN_SEC |-> 1, SLACK_WEBHOOK_URL |-> FALSE] }

\* the thresholds of the configurations of this module
Thresholds == {Float(25), Float(50), Float(55), Threshold33}

\* every error count of a full window under these configurations, as
\* triples <<error_count, WINDOW_SIZE, ERROR_RATE_THRESHOLD>>
RateCases ==
  { c \in { <<k, N, T>> : k \in 0..20, N \in WindowSizes, T \in Thresholds } :
      c[1] <= c[2] }

(* ------------------------------ state ---------------------------------- *)
VARIABLES
  cfg,                    \* the configuration read from the environment
  pc,                     \* "running", or "crashed" once an exception left tail_log_file;
                          \* "parsing" and "parsed" around a call of parse_log_line alone
  clock,                  \* what datetime.now() returns
  nlines,                 \* lines read so far
  last_pool,
  request_window,
  last_failover_alert,
  last_error_rate_alert,
  last,                   \* history: the last line read and what it did
  fed,                    \* history: every status appended to request_window
  flap,                   \* history: the first pool change and the two observations after it
  alert_times             \* history: first and latest alert of each kind, smallest gap

vars == <<cfg, pc, clock, nlines, last_pool, request_window, last_failover_alert,
          last_error_rate_alert, last, fed, flap, alert_times>>

(* --------------------------- input lines ------------------------------- *)
Pools == {Str("blue"), Str("green")}

MkLine(pool, status) ==
  Str("GET pool=") \o pool \o Str(" release=r1 upstream_status=") \o status \o Str(" rt=")

\* a line without pool=
NoPoolLine == Str("release=r1 upstream_status=500")

Lines ==
  { MkLine(p, st) : p \in Pools, st \in {Str("200"), Str("500")} }
  \cup
  { MkLine(Str("green"), Str("500, 200")),     \* a retried request
    MkLine(Str("green"), Str("0")),            \* status 0
    NoPoolLine,
    MkLine(Str("blue"), Str("-")),             \* no status at all
    MkLine(Str("blue"), Str(", 500")),         \* empty first status
    MkLine(Str("blue"), Str("200 500")) }      \* separated by a space only

\* parse_log_line of every input line, as pairs <<line, result>>
ParsedLines == { <<line, parse_log_line(line)>> : line \in Lines }

Parsed(line) == (CHOOSE p \in ParsedLines : p[1] = line)[2]

(* ------------------------- send_slack_alert ---------------------------- *)
\* what requests.post does: status 200, another status, or an exception;
\* "unused" when it is not called
\* the responses possible for the alerts a detector raised
Responses(c, alerts) ==
  IF c.SLACK_WEBHOOK_URL /\ alerts # << >>
  THEN {"200", "503", "exception"}
  ELSE {"unused"}

send_slack_alert(c, response) ==
  IF ~c.SLACK_WEBHOOK_URL THEN FALSE
  ELSE response = "200"

(* ------------------------ mutants of check_failover -------------------- *)
\* mutant: the cooldown test is missing
check_failover_NoCooldown(c, lp, lfa, current_pool, now, response) ==
  IF lp = NoPool
  THEN [last_pool |-> current_pool, last_failover_alert |-> lfa, alerts |-> << >>]
  ELSE IF current_pool # lp
  THEN [last_pool |-> current_pool, last_failover_alert |-> now,
        alerts |-> << [prev |-> lp, new |-> current_pool, at |-> now,
                       sent |-> send_slack_alert(c, response)] >>]
  ELSE [last_pool |-> lp, last_failover_alert |-> lfa, alerts |-> << >>]

\* mutant: the first record is compared with None like any other
check_failover_AlertFirst(c, lp, lfa, current_pool, now, response) ==
  IF current_pool # lp
  THEN IF lfa # NoTime /\ now - lfa < c.ALERT_COOLDOWN_SEC
       THEN [last_pool |-> current_pool, last_failover_alert |-> lfa, alerts |-> << >>]
       ELSE [last_pool |-> current_pool, last_failover_alert |-> now,
             alerts |-> << [prev |-> lp, new |-> current_pool, at |-> now,
                            sent |-> send_slack_alert(c, response)] >>]
  ELSE [last_pool |-> lp, last_failover_alert |-> lfa, alerts |-> << >>]

\* mutant: the cooldown test written <= instead of <
check_failover_Le(c, lp, lfa, current_pool, now, response) ==
  IF lp = NoPool
  THEN [last_pool |-> current_pool, last_failover_alert |-> lfa, alerts |-> << >>]
  ELSE IF current_pool # lp
  THEN IF lfa # NoTime /\ now - lfa <= c.ALERT_COOLDOWN_SEC
       THEN [last_pool |-> current_pool, last_failover_alert |-> lfa, alerts |-> << >>]
       ELSE [last_pool |-> current_pool, last_failover_alert |-> now,
             alerts |-> << [prev |-> lp, new |-> current_pool, at |-> now,
                            sent |-> send_slack_alert(c, response)] >>]
  ELSE [last_pool |-> lp, last_failover_alert |-> lfa, alerts |-> << >>]

\* mutant: the alert time is kept only when the dispatch succeeded
check_failover_SentOnly(c, lp, lfa, current_pool, now, response) ==
  IF lp = NoPool
  THEN [last_pool |-> current_pool, last_failover_alert |-> lfa, alerts |-> << >>]
  ELSE IF current_pool # lp
  THEN IF lfa # NoTime /\ now - lfa < c.ALERT_COOLDOWN_SEC
       THEN [last_pool |-> current_pool, last_failover_alert |-> lfa, alerts |-> << >>]
       ELSE [last_pool |-> current_pool,
             last_failover_alert |-> IF send_slack_alert(c, response) THEN now ELSE lfa,
             alerts |-> << [prev |-> lp, new |-> current_pool, at |-> now,
                            sent |-> send_slack_alert(c, response)] >>]
  ELSE [last_pool |-> lp, last_failover_alert |-> lfa, alerts |-> << >>]

\* mutant: a change inside the cooldown is dropped, last_pool stays
check_failover_Stale(c, lp, lfa, current_pool, now, response) ==
  IF lp = NoPool
  THEN [last_pool |-> current_pool, last_failover_alert |-> lfa, alerts |-> << >>]
  ELSE IF current_pool # lp
  THEN IF lfa # NoTime /\ now - lfa < c.ALERT_COOLDOWN_SEC
       THEN [last_pool |-> lp, last_failover_alert |-> lfa, alerts |-> << >>]
       ELSE [last_pool |-> current_pool, last_failover_alert |-> now,
             alerts |-> << [prev |-> lp, new |-> current_pool, at |-> now,
                            sent |-> send_slack_alert(c, response)] >>]
  ELSE [last_pool |-> lp, last_failover_alert |-> lfa, alerts |-> << >>]

\* mutant: a change inside the cooldown restarts the cooldown
check_failover_Extend(c, lp, lfa, current_pool, now, response) ==
  IF lp = NoPool
  THEN [last_pool |-> current_pool, last_failover_alert |-> lfa, alerts |-> << >>]
  ELSE IF current_pool # lp
  THEN IF lfa # NoTime /\ now - lfa < c.ALERT_COOLDOWN_SEC
       THEN [last_pool |-> current_pool, last_failover_alert |-> now, alerts |-> << >>]
       ELSE [last_pool |-> current_pool, last_failover_alert |-> now,
             alerts |-> << [prev |-> lp, new |-> current_pool, at |-> now,
                            sent |-> send_slack_alert(c, response)] >>]
  ELSE [last_pool |-> lp, last_failover_alert |-> lfa, alerts |-> << >>]

(* --------------------------- check_failover ---------------------------- *)
check_failover(c, lp, lfa, current_pool, now, response) ==
  IF lp = NoPool
  THEN [last_pool |-> current_pool, last_failover_alert |-> lfa, alerts |-> << >>]
  ELSE IF current_pool # lp
  THEN IF lfa # NoTime /\ now - lfa < c.ALERT_COOLDOWN_SEC
       THEN [last_pool |-> current_pool, last_failover_alert |-> lfa, alerts |-> << >>]
       ELSE [last_pool |-> current_pool, last_failover_alert |-> now,
             alerts |-> << [prev |-> lp, new |-> current_pool, at |-> now,
                            sent |-> send_slack_alert(c, response)] >>]
  ELSE [last_pool |-> lp, last_failover_alert |-> lfa, alerts |-> << >>]

(* -------------------------- check_error_rate --------------------------- *)
\* mutant: status > 500 instead of >= 500
ErrorCountGt(w) == Cardinality({i \in 1..Len(w) : w[i] > 500})

\* sum(1 for status in request_window if status >= 500)
ErrorCount(w) == Cardinality({i \in 1..Len(w) : w[i] >= 500})

\* mutant: the window is evaluated before it is full
check_error_rate_Unprimed(c, w, lera, now, response) ==
  LET error_count == ErrorCount(w)
  IN IF RateExceeds(error_count, c.WINDOW_SIZE, c.ERROR_RATE_THRESHOLD)
     THEN IF lera # NoTime /\ now - lera < c.ALERT_COOLDOWN_SEC
          THEN [last_error_rate_alert |-> lera, raised |-> FALSE, counted |-> <<error_count>>,
                alerts |-> << >>]
          ELSE [last_error_rate_alert |-> now, raised |-> FALSE, counted |-> <<error_count>>,
                alerts |-> << [rate |-> Fmt2(error_count, c.WINDOW_SIZE),
                               error_count |-> error_count,
                               window_size |-> c.WINDOW_SIZE,
                               threshold |-> c.ERROR_RATE_THRESHOLD,
                               at |-> now,
                               sent |-> send_slack_alert(c, response)] >>]
     ELSE [last_error_rate_alert |-> lera, raised |-> FALSE, counted |-> <<error_count>>,
           alerts |-> << >>]

\* mutant: the cooldown test is missing
check_error_rate_NoCooldown(c, w, lera, now, response) ==
  IF Len(w) < c.WINDOW_SIZE
  THEN [last_error_rate_alert |-> lera, raised |-> FALSE, counted |-> << >>, alerts |-> << >>]
  ELSE IF c.WINDOW_SIZE = 0
  THEN [last_error_rate_alert |-> lera, raised |-> TRUE, counted |-> <<ErrorCount(w)>>,
        alerts |-> << >>]
  ELSE LET error_count == ErrorCount(w)
       IN IF RateExceeds(error_count, c.WINDOW_SIZE, c.ERROR_RATE_THRESHOLD)
          THEN [last_error_rate_alert |-> now, raised |-> FALSE, counted |-> <<error_count>>,
                alerts |-> << [rate |-> Fmt2(error_count, c.WINDOW_SIZE),
                               error_count |-> error_count,
                               window_size |-> c.WINDOW_SIZE,
                               threshold |-> c.ERROR_RATE_THRESHOLD,
                               at |-> now,
                               sent |-> send_slack_alert(c, response)] >>]
          ELSE [last_error_rate_alert |-> lera, raised |-> FALSE, counted |-> <<error_count>>,
                alerts |-> << >>]

\* mutant: an alert only for a record that is itself an error
check_error_rate_NewError(c, w, lera, now, response) ==
  IF Len(w) < c.WINDOW_SIZE
  THEN [last_error_rate_alert |-> lera, raised |-> FALSE, counted |-> << >>, alerts |-> << >>]
  ELSE IF c.WINDOW_SIZE = 0
  THEN [last_error_rate_alert |-> lera, raised |-> TRUE, counted |-> <<ErrorCount(w)>>,
        alerts |-> << >>]
  ELSE LET error_count == ErrorCount(w)
       IN IF RateExceeds(error_count, c.WINDOW_SIZE, c.ERROR_RATE_THRESHOLD)
             /\ w[Len(w)] >= 500
          THEN IF lera # NoTime /\ now - lera < c.ALERT_COOLDOWN_SEC
               THEN [last_error_rate_alert |-> lera, raised |-> FALSE, counted |-> <<error_count>>,
                     alerts |-> << >>]
               ELSE [last_error_rate_alert |-> now, raised |-> FALSE, counted |-> <<error_count>>,
                     alerts |-> << [rate |-> Fmt2(error_count, c.WINDOW_SIZE),
                                    error_count |-> error_count,
                                    window_size |-> c.WINDOW_SIZE,
                                    threshold |-> c.ERROR_RATE_THRESHOLD,
                                    at |-> now,
                                    sent |-> send_slack_alert(c, response)] >>]
          ELSE [last_error_rate_alert |-> lera, raised |-> FALSE, counted |-> <<error_count>>,
                alerts |-> << >>]

\* mutant: a rate back under the threshold clears the alert time
check_error_rate_Clear(c, w, lera, now, response) ==
  IF Len(w) < c.WINDOW_SIZE
  THEN [last_error_rate_alert |-> lera, raised |-> FALSE, counted |-> << >>, alerts |-> << >>]
  ELSE IF c.WINDOW_SIZE = 0
  THEN [last_error_rate_alert |-> lera, raised |-> TRUE, counted |-> <<ErrorCount(w)>>,
        alerts |-> << >>]
  ELSE LET error_count == ErrorCount(w)
       IN IF RateExceeds(error_count, c.WINDOW_SIZE, c.ERROR_RATE_THRESHOLD)
          THEN IF lera # NoTime /\ now - lera < c.ALERT_COOLDOWN_SEC
               THEN [last_error_rate_alert |-> lera, raised |-> FALSE, counted |-> <<error_count>>,
                     alerts |-> << >>]
               ELSE [last_error_rate_alert |-> now, raised |-> FALSE, counted |-> <<error_count>>,
                     alerts |-> << [rate |-> Fmt2(error_count, c.WINDOW_SIZE),
                                    error_count |-> error_count,
                                    window_size |-> c.WINDOW_SIZE,
                                    threshold |-> c.ERROR_RATE_THRESHOLD,
                                    at |-> now,
                                    sent |-> send_slack_alert(c, response)] >>]
          ELSE [last_error_rate_alert |-> NoTime, raised |-> FALSE, counted |-> <<error_count>>,
                alerts |-> << >>]

\* raised: error_count / WINDOW_SIZE raised ZeroDivisionError (WINDOW_SIZE = 0)
check_error_rate(c, w, lera, now, response) ==
  IF Len(w) < c.WINDOW_SIZE
  THEN [last_error_rate_alert |-> lera, raised |-> FALSE, counted |-> << >>, alerts |-> << >>]
  ELSE IF c.WINDOW_SIZE = 0
  THEN [last_error_rate_alert |-> lera, raised |-> TRUE, counted |-> <<ErrorCount(w)>>,
        alerts |-> << >>]
  ELSE LET error_count == ErrorCount(w)
       IN IF RateExceeds(error_count, c.WINDOW_SIZE, c.ERROR_RATE_THRESHOLD)
          THEN IF lera # NoTime /\ now - lera < c.ALERT_COOLDOWN_SEC
               THEN [last_error_rate_alert |-> lera, raised |-> FALSE, counted |-> <<error_count>>,
                     alerts |-> << >>]
               ELSE [last_error_rate_alert |-> now, raised |-> FALSE, counted |-> <<error_count>>,
                     alerts |-> << [rate |-> Fmt2(error_count, c.WINDOW_SIZE),
                                    error_count |-> error_count,
                                    window_size |-> c.WINDOW_SIZE,
                                    threshold |-> c.ERROR_RATE_THRESHOLD,
                                    at |-> now,
                                    sent |-> send_slack_alert(c, response)] >>]
          ELSE [last_error_rate_alert |-> lera, raised |-> FALSE, counted |-> <<error_count>>,
                alerts |-> << >>]

(* ------------------- request_window = deque(maxlen) -------------------- *)
\* mutant: a deque without maxlen
DequeAppendUnbounded(w, x, maxlen) == Append(w, x)

DequeAppend(w, x, maxlen) ==
  IF maxlen = 0 THEN << >>
  ELSE IF Len(w) >= maxlen THEN Append(Tail(w), x)
  ELSE Append(w, x)

(* ---------------------------- tail_log_file ---------------------------- *)
\* mutant: the if is missing
AcceptedAlways(parsed) == parsed.kind # "ValueError"

\* if pool and upstream_status:
Accepted(parsed) == parsed.kind = "record" /\ parsed.pool # << >> /\ parsed.status # 0

Pre == [last_pool |-> last_pool, request_window |-> request_window,
        last_failover_alert |-> last_failover_alert,
        last_error_rate_alert |-> last_error_rate_alert]

Init ==
  /\ cfg \in Configs
  /\ pc = "running"
  /\ clock = 0
  /\ nlines = 0
  /\ last_pool = NoPool
  /\ request_window = << >>
  /\ last_failover_alert = NoTime
  /\ last_error_rate_alert = NoTime
  /\ last = [line |-> << >>, parsed |-> parse_log_line(<< >>), accepted |-> FALSE,
             pre |-> [last_pool |-> NoPool, request_window |-> << >>,
                      last_failover_alert |-> NoTime, last_error_rate_alert |-> NoTime],
             tF |-> 0, tE |-> 0, failover |-> << >>, counted |-> << >>, error |-> << >>]
  /\ fed = << >>
  /\ flap = << >>
  /\ alert_times = [failover |-> [first |-> NoTime, latest |-> NoTime, min_gap |-> NoTime],
                    error |-> [first |-> NoTime, latest |-> NoTime, min_gap |-> NoTime]]

\* the history of alert times after the alerts of one more record
NoteAlerts(h, alerts) ==
  IF alerts = << >> THEN h
  ELSE [first |-> IF h.first = NoTime THEN alerts[1].at ELSE h.first,
        latest |-> alerts[1].at,
        min_gap |-> IF h.latest = NoTime THEN h.min_gap
                    ELSE IF h.min_gap = NoTime \/ alerts[1].at - h.latest < h.min_gap
                         THEN alerts[1].at - h.latest
                         ELSE h.min_gap]

\* the body of the if: the record is appended, then the detectors run, the
\* first at tF with outcome fo and the second at tE on window w with outcome er;
\* an exception raised by check_error_rate leaves tail_log_file and main
Detect(line, parsed, tF, tE, w, fo, er) ==
  /\ request_window' = w
  /\ last_pool' = fo.last_pool
  /\ last_failover_alert' = fo.last_failover_alert
  /\ last_error_rate_alert' = er.last_error_rate_alert
  /\ clock' = tE
  /\ nlines' = nlines + 1
  /\ last' = [line |-> line, parsed |-> parsed, accepted |-> TRUE, pre |-> Pre,
              tF |-> tF, tE |-> tE, failover |-> fo.alerts,
              counted |-> er.counted, error |-> er.alerts]
  /\ fed' = Append(fed, parsed.status)
  /\ flap' = IF Len(flap) < 3 /\ (flap # << >> \/
                  (last_pool # NoPool /\ parsed.pool # last_pool))
             THEN LET start == IF flap = << >> THEN tF ELSE flap[1].start
                  IN Append(flap, [before |-> last_pool, pool |-> parsed.pool,
                                   had_alert |-> last_failover_alert # NoTime,
                                   start |-> start,
                                   within |-> tF - start < cfg.ALERT_COOLDOWN_SEC,
                                   alerted |-> Len(fo.alerts),
                                   after |-> fo.last_pool])
             ELSE flap
  /\ alert_times' = [failover |-> NoteAlerts(alert_times.failover, fo.alerts),
                     error |-> NoteAlerts(alert_times.error, er.alerts)]
  /\ pc' = IF er.raised THEN "crashed" ELSE pc
  /\ UNCHANGED cfg

\* mutant: one cooldown for both alerts, a Failover alert just sent starts
\* the cooldown of the HighErrorRate alert
RespondShared(line, parsed, tF, tE, w) ==
  LET fo0 == check_failover(cfg, last_pool, last_failover_alert, parsed.pool, tF, "unused")
      shared == IF fo0.alerts # << >> THEN fo0.last_failover_alert
                ELSE last_error_rate_alert
  IN \E r1 \in Responses(cfg, fo0.alerts) :
     \E r2 \in Responses(cfg, check_error_rate(cfg, w, shared, tE, "unused").alerts) :
       Detect(line, parsed, tF, tE, w,
              check_failover(cfg, last_pool, last_failover_alert, parsed.pool, tF, r1),
              check_error_rate(cfg, w, shared, tE, r2))

\* the detectors on the record of a line; each alert a detector raises is
\* posted, with one of the responses of the webhook
Respond(line, parsed, tF, tE, w) ==
  \E r1 \in Responses(cfg, check_failover(cfg, last_pool, last_failover_alert,
                                          parsed.pool, tF, "unused").alerts) :
  \E r2 \in Responses(cfg, check_error_rate(cfg, w, last_error_rate_alert,
                                            tE, "unused").alerts) :
    Detect(line, parsed, tF, tE, w,
           check_failover(cfg, last_pool, last_failover_alert, parsed.pool, tF, r1),
           check_error_rate(cfg, w, last_error_rate_alert, tE, r2))

\* the record of a line read at tF, whose second detector runs at tE
Record(line, parsed, tF, tE) ==
  /\ Accepted(parsed)
  /\ tE <= cfg.ALERT_COOLDOWN_SEC + MaxBeyond
  /\ Respond(line, parsed, tF, tE,
             DequeAppend(request_window, parsed.status, cfg.WINDOW_SIZE))

\* one iteration of the while loop on a line that parses to an accepted record;
\* the line arrives after wait seconds, d seconds pass between the detectors
ReadRecord(line, wait, d) ==
  /\ pc = "running" /\ nlines < cfg.WINDOW_SIZE + MaxExtra
  /\ Record(line, Parsed(line), clock + wait, clock + wait + d)

\* one iteration on a line that gives no record, or a record the if rejects
SkipLine(line) ==
  LET parsed == Parsed(line)
  IN /\ pc = "running" /\ nlines < cfg.WINDOW_SIZE + MaxExtra
     /\ parsed.kind # "ValueError" /\ ~Accepted(parsed)
     /\ nlines' = nlines + 1
     /\ last' = [line |-> line, parsed |-> parsed, accepted |-> FALSE, pre |-> Pre,
                 tF |-> clock, tE |-> clock,
                 failover |-> << >>, counted |-> << >>, error |-> << >>]
     /\ UNCHANGED <<cfg, pc, clock, last_pool, request_window, last_failover_alert,
                    last_error_rate_alert, fed, flap, alert_times>>

\* int() raises ValueError: it leaves parse_log_line and tail_log_file, and
\* main re-raises it
Crash(line) ==
  LET parsed == Parsed(line)
  IN /\ pc = "running" /\ nlines < cfg.WINDOW_SIZE + MaxExtra
     /\ parsed.kind = "ValueError"
     /\ pc' = "crashed"
     /\ nlines' = nlines + 1
     /\ last' = [line |-> line, parsed |-> parsed, accepted |-> FALSE, pre |-> Pre,
                 tF |-> clock, tE |-> clock,
                 failover |-> << >>, counted |-> << >>, error |-> << >>]
     /\ UNCHANGED <<cfg, clock, last_pool, request_window, last_failover_alert,
                    last_error_rate_alert, fed, flap, alert_times>>

\* the lines by what the loop does with them
RecordLines == {line \in Lines : Parsed(line).kind # "ValueError" /\ Accepted(Parsed(line))}
SkipLines == {line \in Lines : Parsed(line).kind # "ValueError" /\ ~Accepted(Parsed(line))}
CrashLines == {line \in Lines : Parsed(line).kind = "ValueError"}

Next ==
  \/ \E line \in RecordLines : \E wait \in Waits(cfg) : \E d \in Delays :
       ReadRecord(line, wait, d)
  \/ \E line \in SkipLines : SkipLine(line)
  \/ \E line \in CrashLines : Crash(line)

Spec == Init /\ [][Next]_vars

(* ------------- a window of 20 requests, threshold 55 percent ----------- *)
BoundaryConfig ==
  [WINDOW_SIZE |-> 20, ERROR_RATE_THRESHOLD |-> Float(55),
   ALERT_COOLDOWN_SEC |-> 1, SLACK_WEBHOOK_URL |-> TRUE]

\* the window after 20 records, 200s first, of which 9 or 10 were errors:
\* it has just become full and was evaluated once, below the threshold
BoundaryWindows ==
  { [i \in 1..20 |-> IF i <= z THEN 200 ELSE 500] : z \in {10, 11} }

InitBoundary ==
  /\ cfg = BoundaryConfig
  /\ pc = "running"
  /\ clock = 0
  /\ nlines = 20
  /\ last_pool = Str("blue")
  /\ request_window \in BoundaryWindows
  /\ last_failover_alert = NoTime
  /\ last_error_rate_alert = NoTime
  /\ fed = request_window
  /\ last = [line |-> MkLine(Str("blue"), Str("500")),
             parsed |-> Parsed(MkLine(Str("blue"), Str("500"))),
             accepted |-> TRUE,
             pre |-> [last_pool |-> Str("blue"),
                      request_window |-> SubSeq(request_window, 1, 19),
                      last_failover_alert |-> NoTime, last_error_rate_alert |-> NoTime],
             tF |-> 0, tE |-> 0, failover |-> << >>,
             counted |-> <<ErrorCount(request_window)>>, error |-> << >>]
  /\ flap = << >>
  /\ alert_times = [failover |-> [first |-> NoTime, latest |-> NoTime, min_gap |-> NoTime],
                    error |-> [first |-> NoTime, latest |-> NoTime, min_gap |-> NoTime]]

SpecBoundary == InitBoundary /\ [][Next]_vars

(* -- a window of 3 requests, threshold 25 or 33.33333333333333 percent, -- *)
(* -- cooldown 2 or 0                                                    -- *)
ReevalConfigs ==
  { [WINDOW_SIZE |-> 3, ERROR_RATE_THRESHOLD |-> T,
     ALERT_COOLDOWN_SEC |-> cd, SLACK_WEBHOOK_URL |-> FALSE] :
      T \in {Float(25), Threshold33}, cd \in {0, 2} }

InitReeval ==
  /\ cfg \in ReevalConfigs
  /\ pc = "running"
  /\ clock = 0
  /\ nlines = 0
  /\ last_pool = NoPool
  /\ request_window = << >>
  /\ last_failover_alert = NoTime
  /\ last_error_rate_alert = NoTime
  /\ last = [line |-> << >>, parsed |-> parse_log_line(<< >>), accepted |-> FALSE,
             pre |-> [last_pool |-> NoPool, request_window |-> << >>,
                      last_failover_alert |-> NoTime, last_error_rate_alert |-> NoTime],
             tF |-> 0, tE |-> 0, failover |-> << >>, counted |-> << >>, error |-> << >>]
  /\ fed = << >>
  /\ flap = << >>
  /\ alert_times = [failover |-> [first |-> NoTime, latest |-> NoTime, min_gap |-> NoTime],
                    error |-> [first |-> NoTime, latest |-> NoTime, min_gap |-> NoTime]]

SpecReeval == InitReeval /\ [][Next]_vars

(* ---------------------- parse_log_line on one line --------------------- *)
Releases == {Str("r1"), Str("r2")}

\* a request line whose fields are separated by the character sep
MkSepLine(sep, pool, release, status) ==
  Str("GET") \o <<sep>> \o Str("pool=") \o pool \o <<sep>> \o Str("release=") \o release
    \o <<sep>> \o Str("upstream_status=") \o status \o <<sep>> \o Str("rt=")

MkRelLine(pool, release, status) == MkSepLine(Space, pool, release, status)

\* the upstream_status values given to the parser: every string of up to
\* MaxStatusLen characters over 0, 5, the comma and the space, and the
\* retried request 502, 200
StatusChars == {Ord("0"), Ord("5"), Comma, Space}

StatusValues ==
  UNION { [1..n -> StatusChars] : n \in 1..MaxStatusLen } \cup {Str("502, 200")}

\* 502 and the list 502, 200 written with the digits of each script
DigitValues ==
  UNION { {<<z + 5, z, z + 2>>,
           <<z + 5, z, z + 2, Comma, Space, z + 2, z, z>>} : z \in DigitZeros }

\* 500 and the list 502, 200
SeparatedValues == {Str("500"), Str("502, 200")}

\* the characters that end a line of the file: readline() returns at \n,
\* and the text mode of open() has turned every \r into \n
LineBreaks == {10, 13}

\* what the lines given to the parser are built from: the separator, the
\* pool, the release and the upstream_status value; every whitespace
\* character a line can hold is the separator of some of them, and the
\* digits of every script are the status of some
ParseInputs ==
  [sep : {Space}, pool : Pools, release : Releases, status : StatusValues]
  \cup
  [sep : {Space}, pool : {Str("blue")}, release : {Str("r1")}, status : DigitValues]
  \cup
  [sep : WhiteSpace \ LineBreaks, pool : {Str("blue")}, release : {Str("r1")},
   status : SeparatedValues]

LineOf(inp) == MkSepLine(inp.sep, inp.pool, inp.release, inp.status)

\* lines whose pool is followed by a whitespace character and more text
\* before release=
CutLines ==
  { Str("GET pool=blue") \o <<sep>> \o Str("x release=r1 upstream_status=500") :
      sep \in WhiteSpace \ LineBreaks }

\* the line of a retried request: pool=blue release=r1 upstream_status=502, 200
RetriedLine == MkRelLine(Str("blue"), Str("r1"), Str("502, 200"))

ParseLines == { LineOf(inp) : inp \in ParseInputs } \cup CutLines

ParseConfig ==
  [WINDOW_SIZE |-> 2, ERROR_RATE_THRESHOLD |-> Float(50),
   ALERT_COOLDOWN_SEC |-> 2, SLACK_WEBHOOK_URL |-> TRUE]

\* a line has been read and parse_log_line is about to be called on it
InitParse ==
  /\ cfg = ParseConfig
  /\ pc = "parsing"
  /\ clock = 0
  /\ nlines = 1
  /\ last_pool = NoPool
  /\ request_window = << >>
  /\ last_failover_alert = NoTime
  /\ last_error_rate_alert = NoTime
  /\ \E line \in ParseLines :
       last = [line |-> line, parsed |-> parse_log_line(<< >>),
               accepted |-> FALSE,
               pre |-> [last_pool |-> NoPool, request_window |-> << >>,
                        last_failover_alert |-> NoTime, last_error_rate_alert |-> NoTime],
               tF |-> 0, tE |-> 0, failover |-> << >>, counted |-> << >>, error |-> << >>]
  /\ fed = << >>
  /\ flap = << >>
  /\ alert_times = [failover |-> [first |-> NoTime, latest |-> NoTime, min_gap |-> NoTime],
                    error |-> [first |-> NoTime, latest |-> NoTime, min_gap |-> NoTime]]

\* pool, release, upstream_status = parse_log_line(line)
ParseLine ==
  /\ pc = "parsing"
  /\ pc' = "parsed"
  /\ last' = [last EXCEPT !.parsed = parse_log_line(last.line)]
  /\ UNCHANGED <<cfg, clock, nlines, last_pool, request_window, last_failover_alert,
                 last_error_rate_alert, fed, flap, alert_times>>

NextParse == ParseLine

SpecParse == InitParse /\ [][NextParse]_vars

(* ============================ properties =============================== *)
\* the errors among the last WINDOW_SIZE statuses fed, counted from the history
Recount ==
  Cardinality({i \in 1..Len(fed) : i > Len(fed) - cfg.WINDOW_SIZE /\ fed[i] >= 500})

\* the last line read was an accepted record and the window is full after it
FullAfterRecord == last.accepted /\ Len(request_window) = cfg.WINDOW_SIZE

\* C1: the window length is min(appends, WINDOW_SIZE), never above WINDOW_SIZE,
\* and the window is the last min(appends, WINDOW_SIZE) statuses fed, oldest first
WindowBound ==
  /\ Len(request_window) \in 0..cfg.WINDOW_SIZE
  /\ Len(request_window) = IF Len(fed) < cfg.WINDOW_SIZE THEN Len(fed) ELSE cfg.WINDOW_SIZE
  /\ request_window = SubSeq(fed, Len(fed) - Len(request_window) + 1, Len(fed))
  /\ (last.accepted /\ Len(last.pre.request_window) = cfg.WINDOW_SIZE
        => request_window = Append(Tail(last.pre.request_window), last.parsed.status))

\* an append at capacity that evicted an error and kept a different status
WindowBoundWitness ==
  /\ last.accepted
  /\ Len(last.pre.request_window) = cfg.WINDOW_SIZE
  /\ Len(fed) = cfg.WINDOW_SIZE + 2
  /\ last.pre.request_window[1] = 500
  /\ request_window[1] = 200

\* C2: while the window is not full no HighErrorRate alert is emitted and
\* last_error_rate_alert stays as it was (unset)
NoPrematureEvaluation ==
  Len(request_window) < cfg.WINDOW_SIZE =>
    /\ last.error = << >>
    /\ last.counted = << >>
    /\ last_error_rate_alert = NoTime
    /\ last_error_rate_alert = last.pre.last_error_rate_alert
    /\ alert_times.error.first = NoTime

\* a window of three records out of four, all of them errors
NoPrematureEvaluationWitness ==
  /\ last.accepted
  /\ cfg.WINDOW_SIZE = 4
  /\ request_window = <<500, 500, 500>>
  /\ last.error = << >>

\* -1, 0 or 1 as the number 100 * k / N is below, equal to or above the
\* threshold T (finite, not negative): 100 * k against T * N
CompareExact(k, N, T) ==
  CompareFloat([mant |-> Binary(100 * k), exp |-> 0],
               [mant |-> MulAdd(T.mant, N, 0), exp |-> T.exp])

\* the cases where 100 * k / N is above the threshold, and where it is
\* equal to it
ExactlyAbove == { c \in RateCases : CompareExact(c[1], c[2], c[3]) > 0 }
ExactlyEqual == { c \in RateCases : CompareExact(c[1], c[2], c[3]) = 0 }

\* C3 as stated: full window, no active cooldown: an alert iff
\* error_count * 100 / WINDOW_SIZE > threshold; none when they are equal
ThresholdBoundary ==
  (/\ FullAfterRecord
   /\ (last.pre.last_error_rate_alert = NoTime
         \/ last.tE - last.pre.last_error_rate_alert >= cfg.ALERT_COOLDOWN_SEC))
  => /\ (last.error # << >>) <=>
          (<<Recount, cfg.WINDOW_SIZE, cfg.ERROR_RATE_THRESHOLD>> \in ExactlyAbove)
     /\ (<<Recount, cfg.WINDOW_SIZE, cfg.ERROR_RATE_THRESHOLD>> \in ExactlyEqual
         => /\ last.error = << >>
            /\ last_error_rate_alert = last.pre.last_error_rate_alert)

\* C4: from tracking A with no failover alert so far, B, A, B within one
\* cooldown period: one alert, on the first change, and last_pool is B
FlapOnce ==
  (/\ Len(flap) = 3
   /\ ~flap[1].had_alert
   /\ flap[2].pool = flap[1].before
   /\ flap[3].pool = flap[1].pool
   /\ flap[2].within /\ flap[3].within)
  => /\ flap[1].alerted = 1
     /\ flap[2].alerted = 0
     /\ flap[3].alerted = 0
     /\ flap[3].after = flap[1].pool

FlapOnceWitness ==
  /\ Len(flap) = 3
  /\ flap[1].before = Str("blue") /\ flap[1].pool = Str("green")
  /\ flap[2].pool = Str("blue") /\ flap[3].pool = Str("green")
  /\ flap[2].within /\ flap[3].within
  /\ flap[1].alerted + flap[2].alerted + flap[3].alerted = 1
  /\ last_pool = Str("green")

\* C5: the first record the failover detector sees sets last_pool to its
\* pool, emits no Failover alert and leaves last_failover_alert unset
FirstRecordSilent ==
  (last.accepted /\ last.pre.last_pool = NoPool)
  => /\ last_pool = last.parsed.pool
     /\ last.failover = << >>
     /\ last_failover_alert = NoTime
     /\ alert_times.failover.first = NoTime

FirstRecordSilentWitness ==
  /\ last.accepted /\ last.pre.last_pool = NoPool
  /\ last_pool = Str("green")
  /\ Len(fed) = 1

\* C6: a Failover alert iff a pool p is tracked, the record's pool differs
\* and no alert was sent before or the cooldown has passed; the alert names
\* p and the new pool and last_failover_alert becomes the current time; a
\* record of pool p changes neither last_pool nor last_failover_alert
FailoverIff ==
  last.accepted =>
    LET p == last.pre.last_pool
        q == last.parsed.pool
        t == last.pre.last_failover_alert
    IN /\ (last.failover # << >>) <=>
            (/\ p # NoPool /\ q # p
             /\ (t = NoTime \/ last.tF - t >= cfg.ALERT_COOLDOWN_SEC))
       /\ (last.failover # << >> =>
             /\ Len(last.failover) = 1
             /\ last.failover[1].prev = p
             /\ last.failover[1].new = q
             /\ last.failover[1].at = last.tF
             /\ last_failover_alert = last.tF)
       /\ (p # NoPool /\ q = p => last_pool = p /\ last_failover_alert = t)
       /\ last_failover_alert = alert_times.failover.latest

\* a second Failover alert, sent once the cooldown had passed
FailoverIffWitness ==
  /\ last.accepted
  /\ last.failover # << >>
  /\ last.pre.last_failover_alert # NoTime
  /\ cfg.ALERT_COOLDOWN_SEC > 0
  /\ last.tF - last.pre.last_failover_alert = cfg.ALERT_COOLDOWN_SEC

\* C7: full window, rate above the threshold: inside the cooldown no alert
\* and last_error_rate_alert unchanged; otherwise one alert with the rate,
\* the error count, WINDOW_SIZE and the threshold, and last_error_rate_alert
\* is the current time; two HighErrorRate alerts are never closer than the
\* cooldown
RateCooldown ==
  /\ (FullAfterRecord /\ RateExceeds(Recount, cfg.WINDOW_SIZE, cfg.ERROR_RATE_THRESHOLD)) =>
       IF /\ last.pre.last_error_rate_alert # NoTime
          /\ last.tE - last.pre.last_error_rate_alert < cfg.ALERT_COOLDOWN_SEC
       THEN /\ last.error = << >>
            /\ last_error_rate_alert = last.pre.last_error_rate_alert
       ELSE /\ Len(last.error) = 1
            /\ last.error[1].error_count = Recount
            /\ last.error[1].window_size = cfg.WINDOW_SIZE
            /\ last.error[1].threshold = cfg.ERROR_RATE_THRESHOLD
            /\ 2 * last.error[1].rate * cfg.WINDOW_SIZE
                 >= 2 * 10000 * Recount - cfg.WINDOW_SIZE
            /\ 2 * last.error[1].rate * cfg.WINDOW_SIZE
                 <= 2 * 10000 * Recount + cfg.WINDOW_SIZE
            /\ last.error[1].at = last.tE
            /\ last_error_rate_alert = last.tE
  /\ (alert_times.error.min_gap # NoTime
        => alert_times.error.min_gap >= cfg.ALERT_COOLDOWN_SEC)
  /\ (alert_times.error.first # NoTime
        => \/ alert_times.error.latest = alert_times.error.first
           \/ alert_times.error.latest - alert_times.error.first >= cfg.ALERT_COOLDOWN_SEC)

\* a second HighErrorRate alert, sent once the cooldown had passed
RateCooldownWitness ==
  /\ FullAfterRecord
  /\ cfg.ALERT_COOLDOWN_SEC > 0
  /\ last.error # << >>
  /\ last.pre.last_error_rate_alert # NoTime
  /\ alert_times.error.min_gap = cfg.ALERT_COOLDOWN_SEC

\* C8: WINDOW_SIZE 4, threshold 25.0, cooldown 0: no alert for 200, 200,
\* 200, 200; none for the 500 that follows (window 200, 200, 200, 500); one
\* alert for the next 500 (window 200, 200, 500, 500)
EndToEnd ==
  (/\ cfg.WINDOW_SIZE = 4
   /\ cfg.ERROR_RATE_THRESHOLD = Float(25)
   /\ cfg.ALERT_COOLDOWN_SEC = 0
   /\ last.accepted)
  => /\ (fed # << >> /\ Len(fed) <= 4 /\ (\A i \in 1..Len(fed) : fed[i] = 200)
           => last.error = << >> /\ alert_times.error.first = NoTime)
     /\ (fed = <<200, 200, 200, 200, 500>>
           => /\ request_window = <<200, 200, 200, 500>>
              /\ last.error = << >>
              /\ alert_times.error.first = NoTime)
     /\ (fed = <<200, 200, 200, 200, 500, 500>>
           => /\ request_window = <<200, 200, 500, 500>>
              /\ Len(last.error) = 1
              /\ last.error[1].rate = 5000
              /\ alert_times.error.first = last.tE
              /\ alert_times.error.min_gap = NoTime)

EndToEndWitness ==
  /\ cfg.WINDOW_SIZE = 4
  /\ cfg.ERROR_RATE_THRESHOLD = Float(25)
  /\ cfg.ALERT_COOLDOWN_SEC = 0
  /\ last.accepted
  /\ fed = <<200, 200, 200, 200, 500, 500>>
  /\ Len(last.error) = 1

\* 2^51 - 1 and 2^51 + 1 in binary: a double computed with two roundings
\* is within one part in 2^51 of the number it stands for
BelowOne == Bits(Pow2(30) - 1, 30) \o Bits(Pow2(21) - 1, 21)
AboveOne == <<1>> \o Bits(1, 51)

\* the number 100 * k / N is above the threshold T (finite, not negative)
\* by more than that precision
ClearlyAbove(k, N, T) ==
  CompareFloat([mant |-> MulAdd(BelowOne, 100 * k, 0), exp |-> 0],
               [mant |-> MulAdd(T.mant, N, 0), exp |-> T.exp + 51]) > 0

\* the number 100 * k / N is above T or below it by less than that precision
NearlyAbove(k, N, T) ==
  CompareFloat([mant |-> MulAdd(AboveOne, 100 * k, 0), exp |-> 0],
               [mant |-> MulAdd(T.mant, N, 0), exp |-> T.exp + 51]) > 0

\* the cases of each kind
ClearCases == { c \in RateCases : ClearlyAbove(c[1], c[2], c[3]) }
NearCases == { c \in RateCases : NearlyAbove(c[1], c[2], c[3]) }

\* C9: on a full window the detector's error count is the number of
\* statuses >= 500 among the last WINDOW_SIZE statuses fed, and the rate
\* it compares and reports is that count / WINDOW_SIZE * 100 to floating
\* precision: the alert is decided by the double (count / WINDOW_SIZE) * 100,
\* a rate above the threshold by more than the precision alerts unless the
\* cooldown runs, and no rate below it by more than the precision does
RateComputation ==
  FullAfterRecord =>
    LET elapsed == \/ last.pre.last_error_rate_alert = NoTime
                   \/ last.tE - last.pre.last_error_rate_alert >= cfg.ALERT_COOLDOWN_SEC
    IN /\ last.counted = <<Recount>>
       /\ (last.error # << >>) <=>
            (/\ Greater(error_rate(Recount, cfg.WINDOW_SIZE), cfg.ERROR_RATE_THRESHOLD)
             /\ elapsed)
       /\ (last.error # << >> =>
             /\ last.error[1].error_count = Recount
             /\ <<Recount, cfg.WINDOW_SIZE, cfg.ERROR_RATE_THRESHOLD>> \in NearCases
             /\ 2 * last.error[1].rate * cfg.WINDOW_SIZE
                  >= 2 * 10000 * Recount - cfg.WINDOW_SIZE
             /\ 2 * last.error[1].rate * cfg.WINDOW_SIZE
                  <= 2 * 10000 * Recount + cfg.WINDOW_SIZE)
       /\ (<<Recount, cfg.WINDOW_SIZE, cfg.ERROR_RATE_THRESHOLD>> \in ClearCases /\ elapsed
             => last.error # << >>)

\* an alert right after an append that evicted an error
RateComputationWitness ==
  /\ FullAfterRecord
  /\ Len(fed) > cfg.WINDOW_SIZE
  /\ fed[Len(fed) - cfg.WINDOW_SIZE] >= 500
  /\ last.error # << >>
  /\ last.error[1].error_count < cfg.WINDOW_SIZE

\* C10: a line from which no record is parsed changes nothing and emits no
\* alert
MalformedLineSkip ==
  (nlines > 0 /\ last.parsed.kind = "none")
  => /\ request_window = last.pre.request_window
     /\ last_pool = last.pre.last_pool
     /\ last_failover_alert = last.pre.last_failover_alert
     /\ last_error_rate_alert = last.pre.last_error_rate_alert
     /\ last.failover = << >> /\ last.error = << >>
     /\ ~last.accepted
     /\ pc = "running"

\* a line without pool= read when the detectors already hold state
MalformedLineSkipWitness ==
  /\ last.line = NoPoolLine
  /\ last.parsed.kind = "none"
  /\ request_window # << >>
  /\ last_pool # NoPool
  /\ last_failover_alert # NoTime

(* ------------------------ the parser's contract ------------------------ *)
\* the items of a list, split at its commas
RECURSIVE CommaItems(_)
CommaItems(s) ==
  IF \E i \in 1..Len(s) : s[i] = Comma
  THEN LET c == CHOOSE i \in 1..Len(s) : s[i] = Comma /\ \A j \in 1..(i - 1) : s[j] # Comma
       IN <<SubSeq(s, 1, c - 1)>> \o CommaItems(SubSeq(s, c + 1, Len(s)))
  ELSE <<s>>

\* an item is an integer: one run of digits, spaces around it allowed
IsInteger(item) ==
  \E a \in 1..Len(item) : \E b \in a..Len(item) :
    /\ \A j \in 1..(a - 1) : item[j] = Space
    /\ \A j \in a..b : item[j] \in Digits
    /\ \A j \in (b + 1)..Len(item) : item[j] = Space

\* a list of two or more comma-separated integers
IsIntegerList(st) ==
  /\ Len(CommaItems(st)) >= 2
  /\ \A k \in 1..Len(CommaItems(st)) : IsInteger(CommaItems(st)[k])

\* the lines given to the parser whose upstream_status value is such a
\* list, each with what it was built from
ListLines ==
  { <<LineOf(inp), inp>> : inp \in {x \in ParseInputs : IsIntegerList(x.status)} }

\* C11: for a line pool=p release=r upstream_status=<list>, the list two or
\* more comma-separated integers, parse_log_line returns (p, r, s) with s the
\* first integer of the list
FirstStatus ==
  pc = "parsed" =>
    \A t \in ListLines :
      last.line = t[1] =>
        last.parsed = [kind |-> "record", pool |-> t[2].pool, release |-> t[2].release,
                       status |-> DecValue(SelectSeq(CommaItems(t[2].status)[1], IsDigit))]

\* the line of the spec: pool=blue release=r1 upstream_status=502, 200
FirstStatusWitness ==
  /\ pc = "parsed"
  /\ last.line = RetriedLine
  /\ last.line \in {t[1] : t \in ListLines}
  /\ last.parsed = [kind |-> "record", pool |-> Str("blue"), release |-> Str("r1"),
                    status |-> 502]

\* C12 as stated: every line read yields a record or is skipped and the
\* loop goes on to the next line; no line makes the watcher fail
NoLineStopsLoop ==
  nlines > 0 => /\ pc = "running"
                /\ last.parsed.kind \in {"record", "none"}

\* C13: whatever the dispatch of an alert gave, the loop goes on and the
\* detector state and the alert decisions after the record are those of a
\* run with a webhook that answers 200
DispatchOutcome ==
  last.accepted =>
    LET ok == [cfg EXCEPT !.SLACK_WEBHOOK_URL = TRUE]
        fo == check_failover(ok, last.pre.last_pool, last.pre.last_failover_alert,
                             last.parsed.pool, last.tF, "200")
        er == check_error_rate(ok, request_window, last.pre.last_error_rate_alert,
                               last.tE, "200")
    IN /\ pc = "running"
       /\ request_window = DequeAppend(last.pre.request_window, last.parsed.status,
                                       cfg.WINDOW_SIZE)
       /\ last_pool = fo.last_pool
       /\ last_failover_alert = fo.last_failover_alert
       /\ last_error_rate_alert = er.last_error_rate_alert
       /\ Len(last.failover) = Len(fo.alerts)
       /\ Len(last.error) = Len(er.alerts)
       /\ (fo.alerts # << >> => fo.alerts[1].sent /\ last.failover[1].at = fo.alerts[1].at)
       /\ (er.alerts # << >> => er.alerts[1].sent /\ last.error[1].at = er.alerts[1].at)

\* both alerts of one record failed to be delivered to a configured webhook
DispatchOutcomeWitness ==
  /\ last.accepted
  /\ cfg.SLACK_WEBHOOK_URL
  /\ last.failover # << >> /\ ~last.failover[1].sent
  /\ last.error # << >> /\ ~last.error[1].sent
  /\ last_failover_alert = last.tF
  /\ last_error_rate_alert = last.tE

\* C14: after every record given to check_failover (the first one, one of
\* the tracked pool, one that alerts, one suppressed by the cooldown)
\* last_pool is the pool of that record
TracksLatestPool ==
  last.accepted => last_pool = last.parsed.pool

\* a pool change suppressed by the cooldown
TracksLatestPoolWitness ==
  /\ last.accepted
  /\ last.pre.last_pool = Str("green")
  /\ last.parsed.pool = Str("blue")
  /\ last.pre.last_failover_alert # NoTime
  /\ last.tF - last.pre.last_failover_alert < cfg.ALERT_COOLDOWN_SEC
  /\ last.failover = << >>
  /\ last_pool = Str("blue")

\* C15: two Failover alerts are never closer than the cooldown, and a pool
\* change suppressed by the cooldown sets last_pool and leaves
\* last_failover_alert as it was
FailoverSpacing ==
  /\ (alert_times.failover.min_gap # NoTime
        => alert_times.failover.min_gap >= cfg.ALERT_COOLDOWN_SEC)
  /\ (alert_times.failover.first # NoTime
        => \/ alert_times.failover.latest = alert_times.failover.first
           \/ alert_times.failover.latest - alert_times.failover.first
                >= cfg.ALERT_COOLDOWN_SEC)
  /\ ((/\ last.accepted
       /\ last.pre.last_pool # NoPool
       /\ last.parsed.pool # last.pre.last_pool
       /\ last.failover = << >>)
      => /\ last_pool = last.parsed.pool
         /\ last_failover_alert = last.pre.last_failover_alert
         /\ last_failover_alert = alert_times.failover.latest)

\* an alert, a suppressed change one second later, and a second alert
\* exactly one cooldown after the first
FailoverSpacingWitness ==
  /\ cfg.ALERT_COOLDOWN_SEC > 1
  /\ Len(flap) = 3
  /\ flap[1].alerted = 1
  /\ flap[2].alerted = 0 /\ flap[2].pool # flap[2].before
  /\ flap[3].alerted = 1
  /\ alert_times.failover.min_gap = cfg.ALERT_COOLDOWN_SEC

\* C16: the cooldowns are independent: last_error_rate_alert changes only
\* with a HighErrorRate alert, decided on the detector's own timestamp;
\* last_failover_alert and last_pool are what check_failover alone decides;
\* a Failover alert on a record does not suppress the HighErrorRate alert
\* of the same record
IndependentCooldowns ==
  last.accepted =>
    /\ (last.error = << >> => last_error_rate_alert = last.pre.last_error_rate_alert)
    /\ (last.error # << >> => last_error_rate_alert = last.tE)
    /\ (last.failover = << >> => last_failover_alert = last.pre.last_failover_alert)
    /\ (last.failover # << >> => last_failover_alert = last.tF)
    /\ last_pool = last.parsed.pool
    /\ (last.error # << >>) <=>
         (/\ Len(request_window) = cfg.WINDOW_SIZE
          /\ RateExceeds(Recount, cfg.WINDOW_SIZE, cfg.ERROR_RATE_THRESHOLD)
          /\ (\/ last.pre.last_error_rate_alert = NoTime
              \/ last.tE - last.pre.last_error_rate_alert >= cfg.ALERT_COOLDOWN_SEC))
    /\ (last.failover # << >>) <=>
         (/\ last.pre.last_pool # NoPool
          /\ last.parsed.pool # last.pre.last_pool
          /\ (\/ last.pre.last_failover_alert = NoTime
              \/ last.tF - last.pre.last_failover_alert >= cfg.ALERT_COOLDOWN_SEC))

\* both alerts fire on one record, the HighErrorRate alert less than a
\* cooldown after the Failover alert
IndependentCooldownsWitness ==
  /\ last.accepted
  /\ last.failover # << >>
  /\ last.error # << >>
  /\ last.tE - last.tF < cfg.ALERT_COOLDOWN_SEC

\* C17: on a full window the HighErrorRate decision of each record is a
\* function of the window, last_error_rate_alert and the time alone: above
\* the threshold with the cooldown over (or 0) the record alerts, whether or
\* not it is an error itself
Reevaluated ==
  FullAfterRecord =>
    LET above == RateExceeds(ErrorCount(request_window), cfg.WINDOW_SIZE,
                             cfg.ERROR_RATE_THRESHOLD)
        elapsed == \/ last.pre.last_error_rate_alert = NoTime
                   \/ last.tE - last.pre.last_error_rate_alert >= cfg.ALERT_COOLDOWN_SEC
    IN /\ (last.error # << >>) <=> (above /\ elapsed)
       /\ (cfg.ALERT_COOLDOWN_SEC = 0 /\ above => last.error # << >>)
       /\ (above /\ elapsed /\ last.parsed.status < 500
             => /\ Len(last.error) = 1
                /\ last.error[1].error_count = ErrorCount(request_window)
                /\ last_error_rate_alert = last.tE)

\* a second alert exactly one cooldown after the first, on a record that is
\* not an error, after a record inside the cooldown that was not one either
ReevaluatedWitness ==
  /\ FullAfterRecord
  /\ fed = <<500, 500, 500, 200, 200>>
  /\ last.pre.last_error_rate_alert # NoTime
  /\ last.tE - last.pre.last_error_rate_alert = cfg.ALERT_COOLDOWN_SEC
  /\ last.error # << >>
  /\ last.error[1].error_count = 1
  /\ alert_times.error.first = last.pre.last_error_rate_alert

\* C18 as stated: every record the parser yields, whatever its pool and
\* status (0 included), is appended to the window and given to
\* check_failover and then check_error_rate
AllRecordsFlow ==
  (nlines > 0 /\ last.parsed.kind = "record")
  => /\ last.accepted
     /\ request_window = DequeAppend(last.pre.request_window, last.parsed.status,
                                     cfg.WINDOW_SIZE)
     /\ last_pool = last.parsed.pool
     /\ (Len(request_window) = cfg.WINDOW_SIZE => last.counted # << >>)

\* a timestamp that is set stays set and does not decrease
StaysSet(before, after) == before # NoTime => (after # NoTime /\ after >= before)

\* C19: with a clock that never goes back, over every step
\* last_failover_alert and last_error_rate_alert, once set, are only
\* replaced by a later or equal time and never become unset
TimestampsMonotone ==
  [][/\ clock' >= clock
     /\ StaysSet(last_failover_alert, last_failover_alert')
     /\ StaysSet(last_error_rate_alert, last_error_rate_alert')]_vars

\* one record replaced both timestamps by a later time
TimestampsMonotoneWitness ==
  /\ last.accepted
  /\ last.pre.last_failover_alert # NoTime
  /\ last_failover_alert > last.pre.last_failover_alert
  /\ last.pre.last_error_rate_alert # NoTime
  /\ last_error_rate_alert > last.pre.last_error_rate_alert

====
